---- MODULE Spec2Model ----
(***************************************************************************)
(* Model of evap_or_ac/core.py: class EvapOrAC.                            *)
(*                                                                         *)
(* The whole program is the constructor EvapOrAC.__init__, which assigns   *)
(* ten attributes one after the other; each assignment is one action.      *)
(*                                                                         *)
(* Python floats are idealised as exact rationals [n, d] (temperatures,    *)
(* humidities), so that x * 9 / 5 + 32, sum / len and 0.9 * x are computed *)
(* and not assumed.  pow() with its fractional exponent is computed in     *)
(* fixed point (FP ticks per unit).                                        *)
(* The three providers (AirNow, Open Elevation, NOAA) and psychrolib are   *)
(* outside the repository: their answers are nondeterministic choices from *)
(* small sets.                                                             *)
(***************************************************************************)
EXTENDS Integers, Sequences, FiniteSets, TLC

\* self:  the attributes of the EvapOrAC object assigned so far (its __dict__)
\* pc:    the attribute __init__ assigns next, or "done", or "failed"
\* error: the exception that left __init__, "" while there is none
VARIABLES pc, self, error

vars == <<pc, self, error>>

(***************************************************************************)
(* Bounds of the model.                                                    *)
(***************************************************************************)
MaxReadings == 2
MaxTempSamples == 2
MaxHumSamples == 1

(***************************************************************************)
(* Exact rational arithmetic standing for Python's float arithmetic.       *)
(***************************************************************************)
Abs(x) == IF x < 0 THEN -x ELSE x

RECURSIVE GCD(_, _)
GCD(a, b) == IF b = 0 THEN a ELSE GCD(b, a % b)

\* The float n / d, d # 0, in lowest terms with a positive denominator.
Rat(n, d) ==
    LET g == GCD(Abs(n), Abs(d))
        s == IF d < 0 THEN -1 ELSE 1
    IN  [n |-> (s * n) \div g, d |-> (s * d) \div g]

FromInt(i) == [n |-> i, d |-> 1]
Plus(a, b) == Rat(a.n * b.d + b.n * a.d, a.d * b.d)
Minus(a, b) == Rat(a.n * b.d - b.n * a.d, a.d * b.d)
Times(a, b) == Rat(a.n * b.n, a.d * b.d)
Over(a, b) == Rat(a.n * b.d, a.d * b.n)
Lt(a, b) == a.n * b.d < b.n * a.d
Le(a, b) == a.n * b.d <= b.n * a.d

RECURSIVE sum(_)
sum(vals) == IF vals = <<>> THEN FromInt(0)
             ELSE Plus(Head(vals), sum(Tail(vals)))

SeqsUpTo(S, n) == UNION {[1..k -> S] : k \in 0..n}

(***************************************************************************)
(* What the outside world can hand to one run.                             *)
(***************************************************************************)
DefaultAqiThreshold == 101

\* aqi_threshold is any int the caller passes: the default, and a negative one.
Thresholds == {DefaultAqiThreshold, -1}

\* One AirNow reading: at the default threshold, and above it.
AqiValues == {101, 150}
Readings == {[AQI |-> v, Latitude |-> 40, Longitude |-> -105] : v \in AqiValues}

\* Open Elevation's answer in metres: sea level, Denver, and an altitude
\* above T0 / L = 29524.6 m.
Elevations == {0, 1609, 30000}

\* validTime of a NOAA sample, reduced to its date.
Today == "today"
Dates == {Today, "tomorrow"}

\* NOAA temperatures in degrees Celsius: 75 F, 95 F and 115 F.
TemperatureValues == {Rat(215, 9), FromInt(35), Rat(415, 9)}
\* NOAA relative humidities in percent.
HumidityValues == {FromInt(10), FromInt(100)}

Samples(values) == {[value |-> v, validTime |-> d] : v \in values, d \in Dates}

Forecasts ==
    {[temperature      |-> [values |-> t],
      relativeHumidity |-> [values |-> h]] :
        t \in SeqsUpTo(Samples(TemperatureValues), MaxTempSamples),
        h \in SeqsUpTo(Samples(HumidityValues), MaxHumSamples)}

\* The wet-bulb depressions (dry bulb minus wet bulb, in degrees Celsius)
\* psychrolib may answer with.
WetBulbDepressions == {FromInt(0), FromInt(15)}

\* What a call returns: a value, or the exception it raised.
Returned(v) == [raised |-> "", value |-> <<v>>]
Raised(e) == [raised |-> e, value |-> <<>>]

(***************************************************************************)
(* EvapOrAC.to_fahrenheit                                                  *)
(***************************************************************************)
to_fahrenheit(celsius) ==
    Plus(Over(Times(celsius, FromInt(9)), FromInt(5)), FromInt(32))

(***************************************************************************)
(* EvapOrAC.get_answer: the rules, in the order the code tries them.       *)
(***************************************************************************)
PeakTemperatureF == 115
AchievableTemperatureF == 75

\* Mutant: the explanation under another field name.
DecisionReason(answer, why) == [answer |-> answer, reason |-> why]

Decision(answer, why) == [answer |-> answer, why |-> why]

AqiWhy(threshold) ==
    "An AQI greater than threshold " \o ToString(threshold) \o " was found."
PeakWhy ==
    "A daily temperature above 115 F was discovered in the weather forecast"
AchievableWhy ==
    "The average achievable evaporative cooler temperature is above 75 F."
GoodDayWhy == "Good day for evaporative cooling."

\* Mutant: >= for >, a reading at the threshold fires the rule.
AqiAtOrAboveThreshold(s) ==
    Len(SelectSeq(s.aqi, LAMBDA x : x.AQI >= s.aqi_threshold)) > 0

\* len([x for x in self.aqi if x["AQI"] > self.aqi_threshold]) > 0
AqiAboveThreshold(s) ==
    Len(SelectSeq(s.aqi, LAMBDA x : x.AQI > s.aqi_threshold)) > 0

\* len([x for x in ...["temperature"]["values"] if to_fahrenheit(...) >= 115]) > 0
TemperatureAtOrAbovePeak(s) ==
    Len(SelectSeq(s.noaa_weather.temperature.values,
                  LAMBDA x : Le(FromInt(PeakTemperatureF),
                                to_fahrenheit(x.value)))) > 0

\* Mutant: >= for >, exactly 75 F fires the rule.
AchievableAtOrAboveLimit(s) ==
    Le(FromInt(AchievableTemperatureF),
       to_fahrenheit(s.avg_evap_temp_achievable))

\* self.to_fahrenheit(self.avg_evap_temp_achievable) > 75
AchievableAboveLimit(s) ==
    Lt(FromInt(AchievableTemperatureF),
       to_fahrenheit(s.avg_evap_temp_achievable))

\* Mutant: the achievable-temperature rule tried before the peak rule.
get_answer_reordered(s) ==
    IF AqiAboveThreshold(s)
    THEN Decision("Air Conditioning", AqiWhy(s.aqi_threshold))
    ELSE IF AchievableAboveLimit(s)
    THEN Decision("Air Conditioning", AchievableWhy)
    ELSE IF TemperatureAtOrAbovePeak(s)
    THEN Decision("Air Conditioning", PeakWhy)
    ELSE Decision("Evaporative Cooler", GoodDayWhy)

get_answer(s) ==
    IF AqiAboveThreshold(s)
    THEN Decision("Air Conditioning", AqiWhy(s.aqi_threshold))
    ELSE IF TemperatureAtOrAbovePeak(s)
    THEN Decision("Air Conditioning", PeakWhy)
    ELSE IF AchievableAboveLimit(s)
    THEN Decision("Air Conditioning", AchievableWhy)
    ELSE Decision("Evaporative Cooler", GoodDayWhy)

(***************************************************************************)
(* The three providers.  Each answers with a value or fails (no network,   *)
(* unknown zipcode); the code catches nothing.                             *)
(***************************************************************************)
get_aqi ==
    {Returned(r) : r \in SeqsUpTo(Readings, MaxReadings)}
        \cup {Raised("ConnectionError")}

\* self.aqi[0] raises IndexError on an empty list of readings.
get_altitude(s) ==
    IF Len(s.aqi) = 0
    THEN {Raised("IndexError")}
    ELSE {Returned(e) : e \in Elevations} \cup {Raised("ConnectionError")}

get_noaa_weather ==
    {Returned(f) : f \in Forecasts} \cup {Raised("ConnectionError")}

(***************************************************************************)
(* EvapOrAC.get_atmospheric_pressure.  Fixed point: a float x is the       *)
(* integer x * FP; an exponent y is the integer y * ExpUnit.               *)
(***************************************************************************)
FP == 1000
ExpUnit == 1024

P0 == 101325
\* 0.00976 K/m, in 1e-5 K/m
LapseRate == 976
\* 288.16 K, in 1e-2 K
T0 == 28816
\* (9.80665 * 0.02896968) / (8.314462618 * 0.00976) = 3.50091, in 1/ExpUnit
Exponent == 3585

Float(v) == [type |-> "float", value |-> v]
Complex == [type |-> "complex", value |-> 0]

FpMul(a, b) == (a * b) \div FP
FpSqrt(x) == CHOOSE r \in 0..(2 * FP) : r * r <= x * FP /\ x * FP < (r + 1) * (r + 1)

RECURSIVE IntPow(_, _)
IntPow(x, k) == IF k = 0 THEN FP ELSE FpMul(x, IntPow(x, k - 1))

\* x ^ (f / ExpUnit), f < 2 * w, given root = x ^ (w / ExpUnit): one binary
\* digit of the exponent (of weight w) per square root.
RECURSIVE FracPow(_, _, _)
FracPow(root, f, w) ==
    IF w = 0 THEN FP
    ELSE IF f >= w
         THEN FpMul(root, FracPow(FpSqrt(root), f - w, w \div 2))
         ELSE FracPow(FpSqrt(root), f, w \div 2)

\* Python's pow(x, y) for a float x and a non-integral float y: a complex
\* number for a negative x, 0.0 for x = 0.0.
pow(x, y) ==
    IF x < 0 THEN Complex
    ELSE Float(FpMul(IntPow(x, y \div ExpUnit),
                     FracPow(FpSqrt(x), y % ExpUnit, ExpUnit \div 2)))

\* 1 - ((0.00976 * self.altitude) / 288.16)
BarometricBase(h) == FP - (LapseRate * h) \div T0

get_atmospheric_pressure(s) ==
    LET p == pow(BarometricBase(s.altitude), Exponent)
    IN  IF p.type = "complex" THEN Complex
        ELSE Float(((P0 * p.value) \div FP) * 100)

(***************************************************************************)
(* EvapOrAC.get_noaa_today_avg_value                                       *)
(***************************************************************************)
get_noaa_today_avg_value(s, item_name) ==
    LET matching == SelectSeq(s.noaa_weather[item_name].values,
                              LAMBDA x : x.validTime = Today)
        RECURSIVE Values(_)
        Values(xs) == IF xs = <<>> THEN <<>>
                      ELSE <<Head(xs).value>> \o Values(Tail(xs))
        vals == Values(matching)
    IN  IF Len(vals) = 0
        THEN Raised("ZeroDivisionError")
        ELSE Returned(Over(sum(vals), FromInt(Len(vals))))

(***************************************************************************)
(* psychrolib.GetTWetBulbFromRelHum, as EvapOrAC.get_avg_wet_bulb_-        *)
(* temperature calls it.  psychrolib rejects a relative humidity outside   *)
(* [0, 1], cannot compute with a complex or non-positive pressure, and     *)
(* otherwise answers with a wet-bulb temperature at or below the dry bulb. *)
(***************************************************************************)
GetTWetBulbFromRelHum(TDryBulb, RelHum, Pressure) ==
    IF Lt(RelHum, FromInt(0)) \/ Lt(FromInt(1), RelHum)
    THEN {Raised("ValueError")}
    ELSE IF Pressure.type = "complex"
    THEN {Raised("TypeError")}
    ELSE IF Pressure.value <= 0
    THEN {Raised("ValueError")}
    ELSE {Returned(Minus(TDryBulb, d)) : d \in WetBulbDepressions}

get_avg_wet_bulb_temperature(s) ==
    GetTWetBulbFromRelHum(s.noaa_avg_temperature,
                          Over(s.noaa_avg_relhumidity, FromInt(100)),
                          s.atmospheric_pressure)

(***************************************************************************)
(* EvapOrAC.get_avg_evap_temp_achievable: SAT = TDB - e * (TDB - TWB)      *)
(***************************************************************************)
Effectiveness == Rat(9, 10)

\* Mutant: the depression taken as TWB - TDB.
get_avg_evap_temp_achievable_sign(s) ==
    Minus(s.noaa_avg_temperature,
          Times(Effectiveness,
                Minus(s.avg_wet_bulb_temperature, s.noaa_avg_temperature)))

get_avg_evap_temp_achievable(s) ==
    Minus(s.noaa_avg_temperature,
          Times(Effectiveness,
                Minus(s.noaa_avg_temperature, s.avg_wet_bulb_temperature)))

(***************************************************************************)
(* EvapOrAC.__init__: the attributes in the order they are assigned, and   *)
(* the attributes each right-hand side reads.                              *)
(***************************************************************************)
\* Mutant: the decision computed before the achievable temperature.
StepsAnswerEarly ==
    <<"aqi_threshold", "aqi", "altitude", "atmospheric_pressure",
      "noaa_weather", "noaa_avg_relhumidity", "noaa_avg_temperature",
      "avg_wet_bulb_temperature", "answer", "avg_evap_temp_achievable">>

Steps ==
    <<"aqi_threshold", "aqi", "altitude", "atmospheric_pressure",
      "noaa_weather", "noaa_avg_relhumidity", "noaa_avg_temperature",
      "avg_wet_bulb_temperature", "avg_evap_temp_achievable", "answer">>

Reads(name) ==
    CASE name = "aqi_threshold" -> {}
      [] name = "aqi" -> {}
      [] name = "altitude" -> {"aqi"}
      [] name = "atmospheric_pressure" -> {"altitude"}
      [] name = "noaa_weather" -> {}
      [] name = "noaa_avg_relhumidity" -> {"noaa_weather"}
      [] name = "noaa_avg_temperature" -> {"noaa_weather"}
      [] name = "avg_wet_bulb_temperature" ->
            {"noaa_avg_temperature", "noaa_avg_relhumidity",
             "atmospheric_pressure"}
      [] name = "avg_evap_temp_achievable" ->
            {"noaa_avg_temperature", "avg_wet_bulb_temperature"}
      [] name = "answer" ->
            {"aqi", "aqi_threshold", "noaa_weather",
             "avg_evap_temp_achievable"}

Position(name) == CHOOSE i \in 1..Len(Steps) : Steps[i] = name
After(name) ==
    IF Position(name) = Len(Steps) THEN "done" ELSE Steps[Position(name) + 1]

\* An exception leaves __init__: nothing further is assigned.
Raise(e) ==
    /\ pc' = "failed"
    /\ error' = e
    /\ UNCHANGED self

\* self.<name> = value, and on to the next statement.
Assign(name, value) ==
    /\ self' = (name :> value) @@ self
    /\ pc' = After(name)
    /\ UNCHANGED error

\* self.<name> = <call>: reading an attribute that is not assigned yet
\* raises AttributeError; an exception of the call propagates.
Statement(name, outcomes) ==
    IF ~(Reads(name) \subseteq DOMAIN self)
    THEN Raise("AttributeError")
    ELSE \E r \in outcomes :
             IF r.raised # "" THEN Raise(r.raised)
             ELSE Assign(name, r.value[1])

Init ==
    /\ pc = Steps[1]
    /\ self = <<>>
    /\ error = ""

SetAqiThreshold ==
    /\ pc = "aqi_threshold"
    /\ Statement("aqi_threshold", {Returned(t) : t \in Thresholds})

GetAqi ==
    /\ pc = "aqi"
    /\ Statement("aqi", get_aqi)

GetAltitude ==
    /\ pc = "altitude"
    /\ Statement("altitude", get_altitude(self))

GetAtmosphericPressure ==
    /\ pc = "atmospheric_pressure"
    /\ Statement("atmospheric_pressure",
                 {Returned(get_atmospheric_pressure(self))})

GetNoaaWeather ==
    /\ pc = "noaa_weather"
    /\ Statement("noaa_weather", get_noaa_weather)

GetNoaaAvgRelHumidity ==
    /\ pc = "noaa_avg_relhumidity"
    /\ Statement("noaa_avg_relhumidity",
                 {get_noaa_today_avg_value(self, "relativeHumidity")})

GetNoaaAvgTemperature ==
    /\ pc = "noaa_avg_temperature"
    /\ Statement("noaa_avg_temperature",
                 {get_noaa_today_avg_value(self, "temperature")})

GetAvgWetBulbTemperature ==
    /\ pc = "avg_wet_bulb_temperature"
    /\ Statement("avg_wet_bulb_temperature",
                 get_avg_wet_bulb_temperature(self))

GetAvgEvapTempAchievable ==
    /\ pc = "avg_evap_temp_achievable"
    /\ Statement("avg_evap_temp_achievable",
                 {Returned(get_avg_evap_temp_achievable(self))})

GetAnswer ==
    /\ pc = "answer"
    /\ Statement("answer", {Returned(get_answer(self))})

Next ==
    \/ SetAqiThreshold
    \/ GetAqi
    \/ GetAltitude
    \/ GetAtmosphericPressure
    \/ GetNoaaWeather
    \/ GetNoaaAvgRelHumidity
    \/ GetNoaaAvgTemperature
    \/ GetAvgWetBulbTemperature
    \/ GetAvgEvapTempAchievable
    \/ GetAnswer

Spec == Init /\ [][Next]_vars

(***************************************************************************)
(* The claims.                                                             *)
(***************************************************************************)
Completed == pc = "done"
Has(name) == name \in DOMAIN self

SomeAqiAbove == \E i \in DOMAIN self.aqi : self.aqi[i].AQI > self.aqi_threshold
SomePeak ==
    \E i \in DOMAIN self.noaa_weather.temperature.values :
        Le(FromInt(115),
           to_fahrenheit(self.noaa_weather.temperature.values[i].value))
AchievableF == to_fahrenheit(self.avg_evap_temp_achievable)

\* C1: in every completed run with at least one AQI reading strictly above
\* aqi_threshold the decision is "Air Conditioning" with the AQI-threshold
\* explanation, whatever the forecast and the achievable temperature are;
\* without such a reading (a reading equal to the threshold included) the
\* AQI explanation is not given.
C1_AqiPrecedence ==
    Completed =>
        IF SomeAqiAbove
        THEN /\ self.answer.answer = "Air Conditioning"
             /\ self.answer.why = AqiWhy(self.aqi_threshold)
        ELSE self.answer.why # AqiWhy(self.aqi_threshold)

\* A run with a reading above the default threshold beside one equal to it,
\* and every other factor in favour of the evaporative cooler.
C1_Witness ==
    /\ Completed
    /\ self.aqi_threshold = DefaultAqiThreshold
    /\ SomeAqiAbove
    /\ \E i \in DOMAIN self.aqi : self.aqi[i].AQI = self.aqi_threshold
    /\ ~SomePeak
    /\ Le(AchievableF, FromInt(75))
    /\ self.answer.why = AqiWhy(DefaultAqiThreshold)

C3_FirstMatchWins ==
    Completed =>
        self.answer.why =
            (CASE SomeAqiAbove -> AqiWhy(self.aqi_threshold)
               [] ~SomeAqiAbove /\ SomePeak -> PeakWhy
               [] ~SomeAqiAbove /\ ~SomePeak /\ Lt(FromInt(75), AchievableF)
                    -> AchievableWhy
               [] OTHER -> GoodDayWhy)

\* No AQI reading above the threshold, a peak >= 115 F and an achievable
\* temperature > 75 F: the peak explanation is given.
C3_Witness ==
    /\ Completed
    /\ ~SomeAqiAbove
    /\ SomePeak
    /\ Lt(FromInt(75), AchievableF)
    /\ self.answer.why = PeakWhy

\* C4: the pressure computed for altitude 0 m is P0 = 101325 Pa, and this
\* is the pressure the wet-bulb solver is given.
C4_SeaLevelPressure ==
    (Has("atmospheric_pressure") /\ self.altitude = 0)
        => self.atmospheric_pressure = Float(P0)

\* C5: with an altitude that makes the base of the barometric formula
\* non-positive, the pressure computation fails with AtmosphericModelError:
\* no pressure is ever assigned and no decision is produced.
C5_DomainError ==
    (Has("altitude") /\ BarometricBase(self.altitude) <= 0)
        => /\ ~Has("atmospheric_pressure")
           /\ pc = "failed" => error = "AtmosphericModelError"
           /\ ~Completed

\* C6: with no relative-humidity sample dated today, the today-average fails
\* with NoDataForToday, without dividing by zero, and no decision is
\* produced.
C6_NoDataForToday ==
    (/\ Has("noaa_weather")
     /\ \A i \in DOMAIN self.noaa_weather.relativeHumidity.values :
            self.noaa_weather.relativeHumidity.values[i].validTime # Today)
        => /\ ~Has("noaa_avg_relhumidity")
           /\ pc = "failed" => error = "NoDataForToday"
           /\ ~Completed

C8_EagerRejection ==
    (Has("aqi_threshold") /\ self.aqi_threshold < 0)
        => /\ DOMAIN self = {"aqi_threshold"}
           /\ ~Completed

\* C9: SAT = TDB - 0.9 * (TDB - TWB), and with TWB <= TDB the result lies
\* between the two, strictly so unless TWB = TDB.
C9_SupplyAirTemperature ==
    Has("avg_evap_temp_achievable") =>
        LET TDB == self.noaa_avg_temperature
            TWB == self.avg_wet_bulb_temperature
            SAT == self.avg_evap_temp_achievable
        IN  /\ SAT = Minus(TDB, Times(Rat(9, 10), Minus(TDB, TWB)))
            /\ Le(TWB, TDB) => Le(TWB, SAT) /\ Le(SAT, TDB)
            /\ Lt(TWB, TDB) => Lt(TWB, SAT) /\ Lt(SAT, TDB)
            /\ TWB = TDB => SAT = TDB

\* A wet bulb strictly below the dry bulb, and the achievable temperature
\* strictly between them.
C9_Witness ==
    /\ Has("avg_evap_temp_achievable")
    /\ Lt(self.avg_wet_bulb_temperature, self.avg_evap_temp_achievable)
    /\ Lt(self.avg_evap_temp_achievable, self.noaa_avg_temperature)

\* C10: construction is a fixed sequence in which every step finds the
\* attributes it reads already assigned; the decision is assigned by the
\* last step only, and once a step has failed it is never assigned.
C10_Pipeline ==
    /\ pc = "altitude" => Has("aqi")
    /\ pc = "atmospheric_pressure" => Has("altitude")
    /\ pc \in {"noaa_avg_relhumidity", "noaa_avg_temperature"}
          => Has("noaa_weather")
    /\ pc = "avg_wet_bulb_temperature"
          => /\ Has("noaa_avg_temperature")
             /\ Has("noaa_avg_relhumidity")
             /\ Has("atmospheric_pressure")
    /\ pc = "avg_evap_temp_achievable"
          => Has("noaa_avg_temperature") /\ Has("avg_wet_bulb_temperature")
    /\ pc = "answer"
          => DOMAIN self =
                {"aqi_threshold", "aqi", "altitude", "atmospheric_pressure",
                 "noaa_weather", "noaa_avg_relhumidity",
                 "noaa_avg_temperature", "avg_wet_bulb_temperature",
                 "avg_evap_temp_achievable"}
    /\ Has("answer") <=> Completed
    /\ pc = "failed" => error # "" /\ ~Has("answer")
    /\ error # "AttributeError"

\* A step in the middle of the pipeline failed: the attributes before it
\* are assigned, the decision is not.
C10_Witness ==
    /\ pc = "failed"
    /\ error = "ZeroDivisionError"
    /\ Has("noaa_avg_relhumidity")
    /\ ~Has("noaa_avg_temperature")
    /\ ~Has("answer")

====
